---- MODULE Spec2Model ----
(***************************************************************************)
(* Single-site utility bill calculator (ubc): the OpenEI RateSchedule with *)
(* its lazily cached rate tables, the SingleSite charge calculators and    *)
(* MonthlyBillReport.demand.                                               *)
(*                                                                         *)
(* Time is counted in 15-minute slots since 2019-01-01 00:00 (a Tuesday).  *)
(* A monthly ("M") resample label is identified by its month number.       *)
(* NaN stands for pandas' NaN / NA: every amount of the model is >= 0.     *)
(***************************************************************************)
EXTENDS Integers, Sequences, FiniteSets

(* ---------------------------- bounds ----------------------------------- *)
MaxLen == 2          \* samples in a load series
MaxCount == 3        \* saturation of the instrumentation counters

(* ------------------------- generic helpers ----------------------------- *)
NaN == -1
None == {}
Some(x) == {x}
Get(o) == CHOOSE x \in o : TRUE

IsNaN(x) == x = NaN
Mul(a, b) == IF IsNaN(a) \/ IsNaN(b) THEN NaN ELSE a * b
Add(a, b) == IF IsNaN(a) \/ IsNaN(b) THEN NaN ELSE a + b

\* the sum of the defined elements of a sequence
SumSkipNa(s) ==
    CHOOSE r \in {LET RECURSIVE upto(_)
                      upto(n) == IF n = 0 THEN 0
                                 ELSE (IF IsNaN(v[n]) THEN 0 ELSE v[n]) + upto(n - 1)
                  IN upto(Len(v)) : v \in {s}} : TRUE

\* the concatenation of a sequence of sequences
Flatten(ss) ==
    CHOOSE r \in {LET RECURSIVE upto(_)
                      upto(n) == IF n = 0 THEN <<>> ELSE upto(n - 1) \o v[n]
                  IN upto(Len(v)) : v \in {ss}} : TRUE

(* ------------------------------ calendar ------------------------------- *)
SlotsPerHour == 4
SlotsPerDay == 96
MonthLengths == <<31, 28, 31, 30, 31, 30, 31, 31, 30, 31, 30, 31>>

RECURSIVE MonthOfDay(_, _)
MonthOfDay(d, m) ==
    IF d < MonthLengths[m] THEN m ELSE MonthOfDay(d - MonthLengths[m], m + 1)

DayOf(t) == t \div SlotsPerDay
HourStamp(t) == t \div SlotsPerHour
hour(t) == (t % SlotsPerDay) \div SlotsPerHour
month(t) == MonthOfDay(DayOf(t), 1)
dayofweek(t) == (DayOf(t) + 1) % 7

WeekendDays == {5, 6}
\* Saturday taken for a weekday
is_weekday_sunday_only(t) == ~(dayofweek(t) \in {6})

is_weekday_of(t) == ~(dayofweek(t) \in WeekendDays)

(* ------------------------------- loads --------------------------------- *)
\* start and sampling interval in slots: 2019-01-31 (Thursday) 23:00 every
\* 30 minutes and every hour, 2019-02-01 (Friday) 23:00 every hour
Shapes == {<<30 * 96 + 92, 2>>, <<30 * 96 + 92, 4>>, <<31 * 96 + 92, 4>>}
\* kW readings: a base load with one peak sample
Peaked(k) == [i \in 1..MaxLen |-> IF i = k THEN 8 ELSE 4]

(* --------------------- the provider's rate items ----------------------- *)
FlatMatrix(id) == [mo \in 0..11 |-> [h \in 0..23 |-> id]]
NightMatrix == [mo \in 0..11 |-> [h \in 0..23 |-> IF h = 23 THEN 0 ELSE 1]]
SeasonMatrix == [mo \in 0..11 |-> [h \in 0..23 |-> IF mo = 0 THEN 0 ELSE 2]]
SeasonMonths == [mo \in 0..11 |-> IF mo = 0 THEN 0 ELSE 1]

\* The provider's JSON item is named by the shape of each of its sections;
\* the *Doc operators give the section's content (what the jmespath
\* expressions of schemas.py find in it).
EnergyDoc(item) ==
    CASE item.energy = "tou" ->
           [weekday |-> Some(NightMatrix), weekend |-> Some(FlatMatrix(0)),
            structure |-> << <<3>>, <<5>> >>]
      [] item.energy = "weekday_only" ->
           [weekday |-> Some(NightMatrix), weekend |-> None,
            structure |-> << <<3>>, <<5>> >>]
      [] OTHER -> [weekday |-> None, weekend |-> None, structure |-> <<>>]

DemandAttrs ==
    << [slug |-> "TOU-winter:off-peak", id |-> 1],
       [slug |-> "TOU-winter:on-peak", id |-> 2],
       [slug |-> "TOU-summer:off-peak", id |-> 3],
       [slug |-> "voltage", id |-> 1] >>

DemandDoc(item) ==
    CASE item.demand = "labelled" ->
           [weekday |-> Some(NightMatrix), weekend |-> Some(SeasonMatrix),
            structure |-> << <<2>>, <<7>>, <<6>> >>, attrs |-> DemandAttrs]
      [] item.demand = "plain" ->
           [weekday |-> Some(NightMatrix), weekend |-> Some(SeasonMatrix),
            structure |-> << <<2>>, <<7>>, <<6>> >>, attrs |-> <<>>]
      [] OTHER -> [weekday |-> None, weekend |-> None, structure |-> <<>>, attrs |-> <<>>]

FlatDemandDoc(item) ==
    CASE item.flatdemand = "seasonal" ->
           [months |-> Some(SeasonMonths), structure |-> << <<1>>, <<4>> >>]
      [] OTHER -> [months |-> None, structure |-> <<>>]

Item(e, d, f, u) ==
    [energy |-> e, demand |-> d, flatdemand |-> f,
     fixedchargeunits |-> u, fixedchargefirstmeter |-> 10]

BaseItem == Item("tou", "plain", "seasonal", "$/day")

Items ==
    { BaseItem,
      Item("weekday_only", "labelled", "absent", "$/day"),
      Item("absent", "absent", "seasonal", "$/month"),
      Item("tou", "labelled", "seasonal", "$/year"),
      Item("tou", "plain", "absent", "null") }

Loads ==
    { [name |-> "", index_name |-> "", start |-> sh[1], freq |-> sh[2], values |-> v] :
         sh \in Shapes, v \in {Peaked(k) : k \in 1..MaxLen} }
      \* a named daily series from Thursday to Friday
      \cup {[name |-> "site", index_name |-> "time", start |-> 30 * 96 + 92,
              freq |-> 96, values |-> <<8, 4>>]}

(* -------------------- RateSchedule: table derivation ------------------- *)
\* pd.Series(list).get(id): the id-th element, NaN outside the index
MapRate(rate, id) == IF id + 1 \in 1..Len(rate) THEN rate[id + 1] ELSE NaN

\* one schedule matrix melted to (month, hour, schedule_id, rate, is_weekday)
MeltSchedule(matrix, rate, meta) ==
    IF matrix = None THEN <<>>
    ELSE LET M == Get(matrix)
         IN [k \in 1..(12 * 24) |->
               LET mo == (k - 1) % 12
                   h == (k - 1) \div 12
               IN [month |-> mo + 1, hour |-> h, schedule_id |-> M[mo][h],
                   rate |-> MapRate(rate, M[mo][h]), is_weekday |-> meta]]

_parse_tou_schedule(schema) ==
    LET rate == Flatten(schema.structure)
    IN MeltSchedule(schema.weekend, rate, FALSE) \o MeltSchedule(schema.weekday, rate, TRUE)

_parse_flatdemand_rates(item) ==
    LET rate == Flatten(FlatDemandDoc(item).structure)
    IN IF FlatDemandDoc(item).months = None THEN <<>>
       ELSE LET S == Get(FlatDemandDoc(item).months)
            IN [k \in 1..12 |->
                  [month |-> (k - 1) + 1, schedule_id |-> S[k - 1],
                   rate |-> MapRate(rate, S[k - 1])]]

\* "TOU-winter:off-peak".split(":", 1)[1].title()
PeriodOfSlug(slug) ==
    CASE slug = "TOU-winter:off-peak" -> "Off-Peak"
      [] slug = "TOU-winter:on-peak" -> "On-Peak"
      [] slug = "TOU-summer:off-peak" -> "Off-Peak"
      [] OTHER -> ""

HasColon(slug) == slug # "voltage"

SyntheticLabel(i) ==
    CASE i = 0 -> "Period-0" [] i = 1 -> "Period-1" [] i = 2 -> "Period-2" [] OTHER -> "Period-n"

\* schedule_id -> label over the ids of the model; "" means no entry
_parse_charge_period(attrs) ==
    [sid \in 0..2 |->
        LET hits == {i \in 1..Len(attrs) : HasColon(attrs[i].slug) /\ attrs[i].id - 1 = sid}
        IN IF hits = {} THEN ""
           ELSE PeriodOfSlug(attrs[CHOOSE i \in hits : \A j \in hits : j <= i].slug)]

\* Demand.attrs.search(rate): the demand section's attribute list
Demand_attrs(item) == DemandDoc(item).attrs

demand_periods(item) ==
    IF Demand_attrs(item) # <<>>
    THEN _parse_charge_period(Demand_attrs(item))
    ELSE LET n == Len(Flatten(DemandDoc(item).structure))
         IN [sid \in 0..2 |-> IF sid < n THEN SyntheticLabel(sid) ELSE ""]

\* Meter.charge_unit.search(rate): the unit of the fixed charge, "null" when absent
Meter_charge_unit(item) == item.fixedchargeunits

meter_charge_unit(item) == Meter_charge_unit(item)
meter(item) == item.fixedchargefirstmeter

(* ------------------------------- state --------------------------------- *)
VARIABLES
    provider,   \* the JSON document the rate provider answers with
    phase,      \* "new", "ready" (constructed) or "failed" (construction raised)
    schedule,   \* the RateSchedule instance: _rate, _energy, _demand, _flatdemand
    calls,      \* how often load_rate and each table derivation were executed
    load,       \* the caller's load series
    result      \* operation, returned value and raised error of the last call

vars == <<provider, phase, schedule, calls, load, result>>

Bump(n) == IF n < MaxCount THEN n + 1 ELSE n

\* S threads the instance, the counters and a raised error through one call
Thread == [o |-> schedule, n |-> calls, error |-> ""]

\* no assertion on the number of items
load_rate_unchecked(S) ==
    LET n == Len(provider.items)
        S1 == [S EXCEPT !.n.load_rate = Bump(@)]
    IN IF n = 0 THEN [rate |-> None, S |-> [S1 EXCEPT !.error = "IndexError"]]
       ELSE [rate |-> Some(provider.items[1]), S |-> S1]

load_rate(S) ==
    LET n == Len(provider.items)
        S1 == [S EXCEPT !.n.load_rate = Bump(@)]
    IN IF n # 1 THEN [rate |-> None, S |-> [S1 EXCEPT !.error = "AssertionError"]]
       ELSE [rate |-> Some(provider.items[1]), S |-> S1]

\* the rate property without its cache: every access fetches
rate_uncached(S) ==
    LET r == load_rate(S) IN [r.S EXCEPT !.o._rate = r.rate]

\* the rate property: fetch on first access, cached afterwards
rate(S) ==
    IF S.o._rate = None
    THEN LET r == load_rate(S) IN [r.S EXCEPT !.o._rate = r.rate]
    ELSE S

energy(S) ==
    LET S1 == rate(S)
    IN IF S1.o._energy = None
       THEN [S1 EXCEPT !.o._energy = Some(_parse_tou_schedule(EnergyDoc(Get(S1.o._rate)))),
                       !.n.energy = Bump(@)]
       ELSE S1

demand(S) ==
    LET S1 == rate(S)
    IN IF S1.o._demand = None
       THEN [S1 EXCEPT !.o._demand = Some(_parse_tou_schedule(DemandDoc(Get(S1.o._rate)))),
                       !.n.demand = Bump(@)]
       ELSE S1

flatdemand(S) ==
    LET S1 == rate(S)
    IN IF S1.o._flatdemand = None
       THEN [S1 EXCEPT !.o._flatdemand = Some(_parse_flatdemand_rates(Get(S1.o._rate))),
                       !.n.flatdemand = Bump(@)]
       ELSE S1

(* --------------------------- pandas primitives ------------------------- *)
\* A table that is read more than once is first bound as the element of a
\* one-element set (x \in {e}), so that it is computed once.
MaxOfSet(S) == IF S = {} THEN NaN ELSE CHOOSE x \in S : \A y \in S : y <= x

\* the place of row i in the stable order by timestamp
Rank(rows, i) ==
    Cardinality({j \in 1..Len(rows) :
        \/ rows[j].timestamp < rows[i].timestamp
        \/ (rows[j].timestamp = rows[i].timestamp /\ j <= i)})

\* set_index(...).sort_index(): rows in the order of their timestamp
sort_index(rows) ==
    CHOOSE r \in {[p \in 1..Len(v) |-> v[CHOOSE i \in 1..Len(v) : Rank(v, i) = p]] : v \in {rows}} : TRUE

\* left_on: schedule_grain ["is_weekday", "month", "hour"], or ["month"]
\* for the flat demand table
left_on(grain, l) ==
    IF grain = "tou" THEN <<l.is_weekday, l.month, l.hour>> ELSE <<l.month>>

\* right_on: load_grain [~dayofweek.isin([5, 6]), month, hour] of the
\* timestamp, or [month]; a monthly label is its month
right_on(grain, r) ==
    IF grain = "tou"
    THEN <<is_weekday_of(r.timestamp), month(r.timestamp), hour(r.timestamp)>>
    ELSE <<r.timestamp>>

\* the joined rows of one right row: one per matching left row; for
\* how="right" one with undefined left columns when no left row matches
JoinRow(L, row, grain, how) ==
    CHOOSE r \in
      { IF hits = <<>> /\ how = "right"
        THEN << [timestamp |-> row.timestamp, q |-> row.q, rate |-> NaN, schedule_id |-> NaN] >>
        ELSE [j \in 1..Len(hits) |->
                [timestamp |-> row.timestamp, q |-> row.q,
                 rate |-> hits[j].rate, schedule_id |-> hits[j].schedule_id]] :
        hits \in {SelectSeq(L, LAMBDA l : left_on(grain, l) = key) :
                    key \in {right_on(grain, row)}} } : TRUE

\* how="inner": a right row without a matching left row is dropped
merge_inner(left, right, grain) ==
    CHOOSE r \in {Flatten([i \in 1..Len(R) |-> JoinRow(L, R[i], grain, "inner")]) :
                    L \in {left}, R \in {right}} : TRUE

\* left.merge(right, how="right"): every right row once per matching left
\* row, and once with undefined left columns when no left row matches
merge(left, right, grain) ==
    CHOOSE r \in {Flatten([i \in 1..Len(R) |-> JoinRow(L, R[i], grain, "right")]) :
                    L \in {left}, R \in {right}} : TRUE

\* rates["cost"] = rates[load.name] * rates["rate"]
WithCost(rates) ==
    CHOOSE r \in {[i \in 1..Len(v) |->
                     [timestamp |-> v[i].timestamp, q |-> v[i].q, rate |-> v[i].rate,
                      schedule_id |-> v[i].schedule_id, cost |-> Mul(v[i].q, v[i].rate)]] :
                  v \in {rates}} : TRUE

(* ------------------------------ load series ---------------------------- *)
\* no copy: the calculator works on the caller's own series
copy_alias(series) == [obj |-> series, shared |-> TRUE]

copy(series) == [obj |-> series, shared |-> FALSE]

\* load.rename(load.name or default, inplace=True); rename_axis likewise
rename_inplace(series, default) ==
    [series EXCEPT !.name = IF @ # "" THEN @ ELSE default,
                   !.index_name = IF @ # "" THEN @ ELSE "timestamp"]

\* what the caller's series is after a calculator worked on ref
Caller(ref, local, ld) == IF ref.shared THEN local ELSE ld

Stamp(ld, i) == ld.start + (i - 1) * ld.freq
First(ld) == Stamp(ld, 1)
Last(ld) == Stamp(ld, Len(ld.values))
reset_index(ld) == [i \in 1..Len(ld.values) |-> [timestamp |-> Stamp(ld, i), q |-> ld.values[i]]]
Months(ld) == [k \in 1..(month(Last(ld)) - month(First(ld)) + 1) |-> month(First(ld)) + k - 1]

\* resample("15 min").mean(): the mean of the samples of one slot, NaN for none
Mean15(ld, s) ==
    LET idx == {i \in 1..Len(ld.values) : Stamp(ld, i) = s}
    IN IF idx = {} THEN NaN
       ELSE SumSkipNa([k \in 1..Len(ld.values) |-> IF k \in idx THEN ld.values[k] ELSE NaN])
              \div Cardinality(idx)

\* .fillna(method="pad"): the latest defined value at or before the slot
Pad15(ld, s) ==
    LET before == {i \in 1..Len(ld.values) : Stamp(ld, i) <= s}
    IN IF before = {} THEN NaN ELSE Mean15(ld, Stamp(ld, MaxOfSet(before)))

\* ....resample("H").max()
HourlyMax(ld) ==
    [k \in 1..(HourStamp(Last(ld)) - HourStamp(First(ld)) + 1) |->
        LET h == HourStamp(First(ld)) + k - 1
        IN [timestamp |-> h * SlotsPerHour,
            q |-> MaxOfSet({Pad15(ld, s) : s \in {u \in (h * SlotsPerHour)..(h * SlotsPerHour + 3) :
                                                    u >= First(ld) /\ u <= Last(ld)}})]]

\* ....resample("M").max()
MonthlyMax(ld) ==
    [k \in 1..Len(Months(ld)) |->
        [timestamp |-> Months(ld)[k],
         q |-> MaxOfSet({Pad15(ld, s) : s \in {u \in First(ld)..Last(ld) :
                                                    month(u) = Months(ld)[k]}})]]

(* ------------------------- SingleSite calculators ---------------------- *)
\* every calculator returns the value, the threaded schedule (with a raised
\* error) and the caller's series as the call leaves it
EnergyRows(table, samples) ==
    CHOOSE r \in {[i \in 1..Len(v) |-> [timestamp |-> v[i].timestamp, q |-> v[i].q,
                                        rate |-> v[i].rate, cost |-> v[i].cost]] :
                  v \in {sort_index(WithCost(merge(table, samples, "tou")))}} : TRUE

calculate_energy_charges(S0, ld) ==
    LET ref == copy(ld)
        local == rename_inplace(ref.obj, "kWh")
    IN CHOOSE r \in {[value |-> EnergyRows(Get(S.o._energy), reset_index(local)),
                      S |-> S, caller |-> Caller(ref, local, ld)] :
                     S \in {energy(S0)}} : TRUE

\* one cell of the pivoted frame after resample("M").max(): the largest
\* defined value of a column among the month's rows of one schedule_id
Cell(rows, m, sid, column) ==
    MaxOfSet({rows[i][column] : i \in {j \in 1..Len(rows) :
                 month(rows[j].timestamp) = m /\ rows[j].schedule_id = sid}})

\* rates.pivot(columns="schedule_id", ...).resample("M").max()
PivotMonthlyMax(rows, months) ==
    CHOOSE r \in
      {[k \in 1..Len(months) |->
          [timestamp |-> months[k],
           tiers |-> [sid \in {v[i].schedule_id : i \in 1..Len(v)} |->
                        [q |-> Cell(v, months[k], sid, "q"),
                         rate |-> Cell(v, months[k], sid, "rate"),
                         cost |-> Cell(v, months[k], sid, "cost")]]]] :
       v \in {rows}} : TRUE

\* if demand_rates.empty: schedule_id = fillna(0), rate = NA
FillEmpty(merged) ==
    CHOOSE r \in {[i \in 1..Len(v) |->
                     [v[i] EXCEPT !.schedule_id = IF IsNaN(@) THEN 0 ELSE @, !.rate = NaN]] :
                  v \in {merged}} : TRUE

DemandRows(demand_rates, resampled) ==
    sort_index(WithCost(IF demand_rates = <<>>
                        THEN FillEmpty(merge(demand_rates, resampled, "tou"))
                        ELSE merge(demand_rates, resampled, "tou")))

calculate_demand_charges(S0, ld) ==
    LET ref == copy(ld)
        local == rename_inplace(ref.obj, "kW")
    IN CHOOSE r \in {[value |-> PivotMonthlyMax(DemandRows(Get(S.o._demand), HourlyMax(local)),
                                               Months(local)),
                      S |-> S, caller |-> Caller(ref, local, ld)] :
                     S \in {demand(S0)}} : TRUE

FlatRows(table, monthly) ==
    CHOOSE r \in {[i \in 1..Len(v) |-> [timestamp |-> v[i].timestamp, q |-> v[i].q,
                                        rate |-> v[i].rate, cost |-> v[i].cost]] :
                  v \in {sort_index(WithCost(merge(table, monthly, "month")))}} : TRUE

calculate_flatdemand_charges(S0, ld) ==
    LET ref == copy(ld)
        local == rename_inplace(ref.obj, "kW")
    IN CHOOSE r \in {[value |-> FlatRows(Get(S.o._flatdemand), MonthlyMax(local)),
                      S |-> S, caller |-> Caller(ref, local, ld)] :
                     S \in {flatdemand(S0)}} : TRUE

\* load.resample("D").nearest().resample("M").count(): per month, the days
\* from the first to the last day of the series
DaysPerMonth(ld) ==
    [k \in 1..Len(Months(ld)) |->
        [timestamp |-> Months(ld)[k],
         N |-> Cardinality({d \in DayOf(First(ld))..DayOf(Last(ld)) :
                              MonthOfDay(d, 1) = Months(ld)[k]})]]

\* load.resample("M").nearest().count(): Series.count(), one number
MonthCount(ld) == Len(Months(ld))

calculate_meter_charges(S0, ld) ==
    LET S == rate(S0)
        charge_unit == meter_charge_unit(Get(S.o._rate))
        fixed == meter(Get(S.o._rate))
    IN IF charge_unit = "$/day"
       THEN [value |-> [k \in 1..Len(Months(ld)) |->
                          [timestamp |-> DaysPerMonth(ld)[k].timestamp, N |-> DaysPerMonth(ld)[k].N,
                           cost |-> DaysPerMonth(ld)[k].N * fixed]],
             S |-> S, caller |-> ld]
       ELSE IF charge_unit = "$/month"
       \* cost is the number MonthCount(ld) * fixed, which has no rename()
       THEN [value |-> <<>>, S |-> [S EXCEPT !.error = "AttributeError"], caller |-> ld]
       \* "...{}".format() raises before UnknownRateStructure is constructed
       ELSE [value |-> <<>>, S |-> [S EXCEPT !.error = "IndexError"], caller |-> ld]

\* the value of a monthly stream for one month, NaN where the index lacks it
AtMonth(rows, m) ==
    LET idx == {i \in 1..Len(rows) : rows[i].timestamp = m}
    IN IF idx = {} THEN NaN ELSE rows[CHOOSE i \in idx : TRUE].cost

TierCostMax(r) ==
    MaxOfSet({r.tiers[sid].cost : sid \in DOMAIN r.tiers} \cup {0})

\* the cost columns of one month added up, undefined cells skipped
TierCostSum(r) ==
    LET sids == DOMAIN r.tiers
    IN IF sids = {} THEN 0
       ELSE SumSkipNa([k \in 1..(MaxOfSet(sids) + 2) |->
                         IF (k - 2) \in sids THEN r.tiers[k - 2].cost ELSE NaN])

\* calculate_demand_charges(load_kw)["cost"].sum(axis=1)
DemandCharges(rows) ==
    CHOOSE r \in {[k \in 1..Len(v) |-> [timestamp |-> v[k].timestamp, cost |-> TierCostSum(v[k])]] :
                  v \in {rows}} : TRUE

\* ["cost"].resample("M").sum()
MonthlySum(rows, months) ==
    CHOOSE r \in
      {[k \in 1..Len(months) |->
          [timestamp |-> months[k],
           cost |-> SumSkipNa([i \in 1..Len(v) |->
                       IF month(v[i].timestamp) = months[k] THEN v[i].cost ELSE NaN])]] :
       v \in {rows}} : TRUE

\* load_kw * interval, interval = freq.delta / DELTA_HOUR
ToKwh(load_kw) ==
    [load_kw EXCEPT !.values =
        [i \in 1..Len(load_kw.values) |-> (load_kw.values[i] * load_kw.freq) \div SlotsPerHour]]

\* meter_charges + energy_charges + demand_charges + flatdemand_charges
SumStreams(a, months) ==
    [k \in 1..Len(months) |->
        [timestamp |-> months[k],
         total_cost |-> Add(Add(Add(AtMonth(a.mt.value, months[k]),
                                    AtMonth(a.energy_charges, months[k])),
                                AtMonth(a.demand_charges, months[k])),
                            AtMonth(a.f.value, months[k]))]]

calculate_total(S0, load_kw) ==
    LET A1 == {[e |-> calculate_energy_charges(S0, ToKwh(load_kw))]}
        A2 == {[energy_charges |-> MonthlySum(a.e.value, Months(load_kw)),
                d |-> calculate_demand_charges(a.e.S, load_kw)] : a \in A1}
        A3 == {[energy_charges |-> a.energy_charges,
                demand_charges |-> DemandCharges(a.d.value),
                f |-> calculate_flatdemand_charges(a.d.S, a.d.caller)] : a \in A2}
        A4 == {[energy_charges |-> a.energy_charges, demand_charges |-> a.demand_charges,
                f |-> a.f, mt |-> calculate_meter_charges(a.f.S, a.f.caller)] : a \in A3}
    IN CHOOSE r \in {[value |-> IF a.mt.S.error = "" THEN SumStreams(a, Months(load_kw)) ELSE <<>>,
                      S |-> a.mt.S, caller |-> a.mt.caller] : a \in A4} : TRUE

(* ------------------------- MonthlyBillReport --------------------------- *)
\* str(schedule_id) of a column that demand_periods does not rename
Unrenamed(sid) ==
    CASE sid = 0 -> "0" [] sid = 1 -> "1" [] sid = 2 -> "2" [] OTHER -> "nan"

\* rename(columns=demand_periods, level=1)
Relabel(periods, sid) ==
    IF sid \in DOMAIN periods /\ periods[sid] # "" THEN periods[sid] ELSE Unrenamed(sid)

\* peak_charges[dup_col].sum(): DataFrame.sum() adds down the rows, one
\* total per selected column, indexed by the (repeated) column label
DupColumnSum(frame, sids) ==
    [sid \in sids |->
        SumSkipNa([k \in 1..Len(frame) |-> frame[k].tiers[sid].cost])]

\* peak_charges[dup_col] = S: S is reindexed to the frame's rows, which
\* fails for an index that repeats a label
SetColumn(frame, label, S) ==
    IF Cardinality(DOMAIN S) > 1
    THEN [error |-> "ValueError", frame |-> frame]
    ELSE [error |-> "",
          frame |-> [k \in 1..Len(frame) |-> [frame[k] EXCEPT !.summed = @ \cup {label}]]]

\* the report's frame for a demand result: relabelled columns, flat charges joined
ReportFrame(flat_charges, peak, periods) ==
    LET sids == IF peak.value = <<>> THEN {} ELSE DOMAIN peak.value[1].tiers
        labels == {Relabel(periods, sid) : sid \in sids}
        duplicated == {l \in labels : Cardinality({sid \in sids : Relabel(periods, sid) = l}) > 1}
        frame0 == [k \in 1..Len(peak.value) |-> [timestamp |-> peak.value[k].timestamp,
                                                 tiers |-> peak.value[k].tiers,
                                                 summed |-> {}]]
        \* peak_charges.join(flat_charges): a left join on the month
        flatrow(m) ==
            LET idx == {i \in 1..Len(flat_charges.value) : flat_charges.value[i].timestamp = m}
            IN IF idx = {} THEN [q |-> NaN, cost |-> NaN]
               ELSE flat_charges.value[CHOOSE i \in idx : TRUE]
        dup_col == CHOOSE l \in duplicated : TRUE
        assigned == SetColumn(frame0, dup_col,
                       DupColumnSum(frame0, {sid \in sids : Relabel(periods, sid) = dup_col}))
        columns(k) ==
            [l \in labels |->
                LET sid == CHOOSE x \in sids : Relabel(periods, x) = l
                IN [kW |-> peak.value[k].tiers[sid].q, cost |-> peak.value[k].tiers[sid].cost]]
    IN IF duplicated # {}
       THEN [value |-> <<>>, error |-> assigned.error]
       ELSE [value |-> [k \in 1..Len(peak.value) |->
                          [timestamp |-> peak.value[k].timestamp,
                           peak |-> columns(k),
                           flat |-> [kW |-> flatrow(peak.value[k].timestamp).q,
                                     cost |-> flatrow(peak.value[k].timestamp).cost]]],
             error |-> ""]

report_demand(S0, ld) ==
    LET self_load == rename_inplace(copy(ld).obj, "kW")
        A1 == {[flat_charges |-> calculate_flatdemand_charges(S0, self_load)]}
        A2 == {[flat_charges |-> a.flat_charges,
                peak |-> calculate_demand_charges(a.flat_charges.S, self_load)] : a \in A1}
        A3 == {[S |-> rate(a.peak.S),
                frame |-> ReportFrame(a.flat_charges, a.peak,
                                      demand_periods(Get(rate(a.peak.S).o._rate)))] : a \in A2}
    IN CHOOSE r \in {[value |-> a.frame.value, S |-> [a.S EXCEPT !.error = a.frame.error],
                      caller |-> ld] : a \in A3} : TRUE

NoResult == [op |-> "none", error |-> "", value |-> <<>>]

Responses ==
    {[items |-> <<>>], [items |-> <<BaseItem, BaseItem>>]}
       \cup {[items |-> <<i>>] : i \in Items}

Init ==
    /\ provider \in Responses
    /\ load \in Loads
    /\ phase = "new"
    /\ schedule = [_rate |-> None, _energy |-> None, _demand |-> None, _flatdemand |-> None]
    /\ calls = [load_rate |-> 0, energy |-> 0, demand |-> 0, flatdemand |-> 0]
    /\ result = NoResult

\* RateSchedule(apikey, id): __post_init__ reads self.rate for name and description
Construct ==
    /\ phase = "new"
    /\ \E S \in {rate(Thread)} :
          /\ schedule' = S.o
          /\ calls' = S.n
          /\ phase' = IF S.error = "" THEN "ready" ELSE "failed"
          /\ result' = [op |-> "__post_init__", error |-> S.error, value |-> <<>>]
    /\ UNCHANGED <<provider, load>>

Commit(S, op, value) ==
    /\ schedule' = S.o
    /\ calls' = S.n
    /\ result' = [op |-> op, error |-> S.error, value |-> value]

GetEnergy ==
    /\ phase = "ready"
    /\ \E S \in {energy(Thread)} : Commit(S, "energy", <<>>)
    /\ UNCHANGED <<provider, phase, load>>

GetDemand ==
    /\ phase = "ready"
    /\ \E S \in {demand(Thread)} : Commit(S, "demand", <<>>)
    /\ UNCHANGED <<provider, phase, load>>

GetFlatdemand ==
    /\ phase = "ready"
    /\ \E S \in {flatdemand(Thread)} : Commit(S, "flatdemand", <<>>)
    /\ UNCHANGED <<provider, phase, load>>

GetMeter ==
    /\ phase = "ready"
    /\ \E S \in {rate(Thread)} :
          Commit(S, "meter", <<[unit |-> meter_charge_unit(Get(S.o._rate)),
                                rate |-> meter(Get(S.o._rate))]>>)
    /\ UNCHANGED <<provider, phase, load>>

GetDemandPeriods ==
    /\ phase = "ready"
    /\ \E S \in {rate(Thread)} :
          Commit(S, "demand_periods", <<demand_periods(Get(S.o._rate))>>)
    /\ UNCHANGED <<provider, phase, load>>

Call(r, op) ==
    /\ Commit(r.S, op, r.value)
    /\ load' = r.caller
    /\ UNCHANGED <<provider, phase>>

CalcEnergy ==
    /\ phase = "ready"
    /\ \E r \in {calculate_energy_charges(Thread, load)} : Call(r, "calculate_energy_charges")

CalcDemand ==
    /\ phase = "ready"
    /\ \E r \in {calculate_demand_charges(Thread, load)} : Call(r, "calculate_demand_charges")

CalcFlatdemand ==
    /\ phase = "ready"
    /\ \E r \in {calculate_flatdemand_charges(Thread, load)} :
          Call(r, "calculate_flatdemand_charges")

CalcMeter ==
    /\ phase = "ready"
    /\ \E r \in {calculate_meter_charges(Thread, load)} : Call(r, "calculate_meter_charges")

CalcTotal ==
    /\ phase = "ready"
    /\ \E r \in {calculate_total(Thread, load)} : Call(r, "calculate_total")

ReportDemand ==
    /\ phase = "ready"
    /\ \E r \in {report_demand(Thread, load)} : Call(r, "MonthlyBillReport.demand")

Next ==
    \/ Construct
    \/ GetEnergy
    \/ GetDemand
    \/ GetFlatdemand
    \/ GetMeter
    \/ GetDemandPeriods
    \/ CalcEnergy
    \/ CalcDemand
    \/ CalcFlatdemand
    \/ CalcMeter
    \/ CalcTotal
    \/ ReportDemand

Spec == Init /\ [][Next]_vars

(* ============================== properties ============================= *)
Zero(x) == IF IsNaN(x) THEN 0 ELSE x
Returned(op) == result.op = op /\ result.error = ""
Item0 == Get(schedule._rate)

\* C1: for every month of the load, calculate_total returns a defined total
\* equal to the sum of the meter, energy, demand and flat-demand costs of
\* that month, an undefined stream value counting as zero.
C1_TotalTreatsMissingAsZero ==
    Returned("calculate_total") =>
        /\ Len(result.value) = Len(Months(load))
        /\ \A k \in 1..Len(result.value) :
              LET m == Months(load)[k]
              IN /\ result.value[k].timestamp = m
                 /\ ~IsNaN(result.value[k].total_cost)
                 /\ result.value[k].total_cost =
                      Zero(AtMonth(calculate_meter_charges(Thread, load).value, m))
                      + Zero(AtMonth(MonthlySum(calculate_energy_charges(Thread, ToKwh(load)).value,
                                                Months(load)), m))
                      + Zero(AtMonth(DemandCharges(calculate_demand_charges(Thread, load).value), m))
                      + Zero(AtMonth(calculate_flatdemand_charges(Thread, load).value, m))

\* C2: with a charge_unit other than "$/day" and "$/month" (a missing one
\* included) calculate_meter_charges raises UnknownRateStructure and
\* returns no cost.
C2_UnknownUnitRaisesUnknownRateStructure ==
    (result.op = "calculate_meter_charges"
        /\ meter_charge_unit(Item0) \notin {"$/day", "$/month"})
    => (result.error = "UnknownRateStructure" /\ result.value = <<>>)

\* C3: calculate_meter_charges returns one cost per month of the load,
\* N[month] * fixed_rate, N the calendar days of the month in the load for
\* "$/day" and 1 for "$/month".
C3_MeterCostPerMonth ==
    (result.op = "calculate_meter_charges"
        /\ meter_charge_unit(Item0) \in {"$/day", "$/month"})
    => /\ result.error = ""
       /\ Len(result.value) = Len(Months(load))
       /\ \A k \in 1..Len(result.value) :
             LET m == Months(load)[k]
                 days == {d \in DayOf(load.start)..DayOf(load.start + (Len(load.values) - 1) * load.freq) :
                            MonthOfDay(d, 1) = m}
                 N == IF meter_charge_unit(Item0) = "$/day" THEN Cardinality(days) ELSE 1
             IN /\ result.value[k].timestamp = m
                /\ result.value[k].cost = N * meter(Item0)

\* the load's timestamps, written out from its start and sampling interval
LoadStamps == {load.start + (i - 1) * load.freq : i \in 1..Len(load.values)}

\* C4: the output of calculate_energy_charges holds every timestamp of the
\* load exactly once, whatever the energy table (an empty one included).
C4_EnergyJoinPreservesLoad ==
    result.op = "calculate_energy_charges" =>
        /\ result.error = ""
        /\ Len(result.value) = Len(load.values)
        /\ \A t \in LoadStamps :
              Cardinality({i \in 1..Len(result.value) : result.value[i].timestamp = t}) = 1
        /\ \A i \in 1..Len(result.value) : result.value[i].timestamp \in LoadStamps

C4_Witness ==
    /\ result.op = "calculate_energy_charges"
    /\ Len(result.value) >= 2
    /\ \E i \in 1..Len(result.value) : IsNaN(result.value[i].rate)
    /\ \E i \in 1..Len(result.value) : ~IsNaN(result.value[i].rate)

C4_WitnessEmptyTable ==
    /\ result.op = "calculate_energy_charges"
    /\ Get(schedule._energy) = <<>>
    /\ Len(result.value) >= 2

\* C5: each load sample gets the rate of the energy schedule row whose
\* (is_weekday, month, hour) is the sample's calendar key, is_weekday being
\* true exactly from Monday (0) to Friday (4), month in 1..12, hour in 0..23;
\* without such a row the sample's rate and cost are undefined.
C5_EnergyRateByCalendarKey ==
    result.op = "calculate_energy_charges" =>
        LET table == Get(schedule._energy)
        IN /\ \A j \in 1..Len(table) : table[j].month \in 1..12 /\ table[j].hour \in 0..23
           /\ \A i \in 1..Len(result.value) :
                LET r == result.value[i]
                    t == r.timestamp
                    wd == ((t \div 96) + 1) % 7 \in 0..4
                    mo == MonthOfDay(t \div 96, 1)
                    hr == (t \div 4) % 24
                    rows == {j \in 1..Len(table) :
                               table[j].is_weekday = wd /\ table[j].month = mo /\ table[j].hour = hr}
                IN /\ Cardinality(rows) <= 1
                   /\ rows = {} => IsNaN(r.rate) /\ IsNaN(r.cost)
                   /\ \A j \in rows : r.rate = table[j].rate /\ r.cost = Mul(r.q, table[j].rate)

C5_Witness ==
    /\ result.op = "calculate_energy_charges"
    /\ \E i, j \in 1..Len(result.value) :
          /\ dayofweek(result.value[i].timestamp) = 4
          /\ dayofweek(result.value[j].timestamp) = 5
          /\ ~IsNaN(result.value[i].rate)
          /\ ~IsNaN(result.value[j].rate)
          /\ result.value[j].cost > 0

\* the demand tiers (schedule_ids) a rate item of the model can name
Tiers == 0..2

\* the demand tier and rate of one hour, read off the item's schedule
\* matrices and rate structure
TierOfHour(item, t) ==
    LET mat == IF dayofweek(t) \in 0..4 THEN DemandDoc(item).weekday ELSE DemandDoc(item).weekend
    IN IF mat = None THEN NaN ELSE Get(mat)[month(t) - 1][hour(t)]

HourCost(item, r) ==
    LET sid == TierOfHour(item, r.timestamp)
        rates == Flatten(DemandDoc(item).structure)
    IN IF IsNaN(sid) \/ sid + 1 > Len(rates) THEN NaN ELSE r.q * rates[sid + 1]

TierMonthMax(item, ld, sid, m) ==
    LET hours == HourlyMax(ld)
    IN MaxOfSet({HourCost(item, hours[i]) :
                    i \in {j \in 1..Len(hours) : /\ month(hours[j].timestamp) = m
                                                   /\ TierOfHour(item, hours[j].timestamp) = sid}})

ExpectedDemand(item, ld, m) ==
    SumSkipNa([k \in 1..Cardinality(Tiers) |-> Zero(TierMonthMax(item, ld, k - 1, m))])

C6_WitnessEmptyTable ==
    /\ Returned("calculate_total")
    /\ Get(schedule._demand) = <<>>
    /\ \E k \in 1..Len(result.value) : ~IsNaN(result.value[k].total_cost)

Calculators ==
    {"calculate_energy_charges", "calculate_demand_charges", "calculate_flatdemand_charges",
     "calculate_meter_charges", "calculate_total"}

CacheFields == {"_rate", "_energy", "_demand", "_flatdemand"}

\* C7: no call of a calculator changes the caller's load series (values,
\* name, index, index name) or a cached rate table, and two successive
\* calls of calculate_total give the same result.
C7_CalculatorsLeaveInputsAlone ==
    [][ /\ load' = load
        /\ \A f \in CacheFields : schedule[f] # None => schedule'[f] = schedule[f]
        /\ (result.op = "calculate_total" /\ result'.op = "calculate_total") => result' = result
      ]_vars

C7_Witness ==
    /\ result.op \in Calculators
    /\ result.op # "calculate_meter_charges"
    /\ load.name = ""
    /\ load.index_name = ""
    /\ \A f \in CacheFields : schedule[f] # None

\* C8: on one RateSchedule instance load_rate runs exactly once, before any
\* calculator, each of the energy, demand and flatdemand tables is derived
\* at most once, and what is cached is what the one fetch and derivation gave.
C8_FetchOnceDeriveOnce ==
    /\ phase = "ready" =>
          /\ calls.load_rate = 1
          /\ schedule._rate = {provider.items[1]}
    /\ (result.op \in Calculators \cup {"MonthlyBillReport.demand"}) =>
          (phase = "ready" /\ calls.load_rate = 1)
    /\ calls.energy <= 1 /\ calls.demand <= 1 /\ calls.flatdemand <= 1
    /\ (calls.energy = 1) = (schedule._energy # None)
    /\ (calls.demand = 1) = (schedule._demand # None)
    /\ (calls.flatdemand = 1) = (schedule._flatdemand # None)

C8_Witness ==
    /\ result.op = "energy"
    /\ calls = [load_rate |-> 1, energy |-> 1, demand |-> 1, flatdemand |-> 1]

\* the demand tiers present in the load's hours that share a period label
Colliding(item, ld) ==
    LET present == {TierOfHour(item, HourlyMax(ld)[i].timestamp) : i \in 1..Len(HourlyMax(ld))}
    IN {pair \in present \X present :
          pair[1] < pair[2] /\ Relabel(demand_periods(item), pair[1])
                                 = Relabel(demand_periods(item), pair[2])}

\* C9: when demand tiers share a period label, MonthlyBillReport.demand does
\* not fail and shows them as one column holding, per month, the sum of the
\* colliding columns.
C9_ReportSumsCollidingTiers ==
    (result.op = "MonthlyBillReport.demand" /\ Colliding(Item0, load) # {})
    => /\ result.error = ""
       /\ Len(result.value) = Len(Months(load))
       /\ \A k \in 1..Len(result.value) : \A pair \in Colliding(Item0, load) :
             result.value[k].peak[Relabel(demand_periods(Item0), pair[1])].cost
               = Zero(TierMonthMax(Item0, load, pair[1], result.value[k].timestamp))
                 + Zero(TierMonthMax(Item0, load, pair[2], result.value[k].timestamp))

\* C10: a provider response with a number of items other than one makes
\* load_rate fail with an assertion error that reaches the caller as it is;
\* _rate stays unset, the construction does not complete and no calculator
\* runs.
C10_WrongItemCountFailsConstruction ==
    (Len(provider.items) # 1 /\ phase # "new")
    => /\ phase = "failed"
       /\ result = [op |-> "__post_init__", error |-> "AssertionError", value |-> <<>>]
       /\ schedule._rate = None
       /\ schedule._energy = None /\ schedule._demand = None /\ schedule._flatdemand = None
       /\ calls.load_rate = 1

C10_Witness == phase = "failed" /\ Len(provider.items) = 2

C10_WitnessNoItem == phase = "failed" /\ Len(provider.items) = 0

====
